---- MODULE Spec2Model ----
(***************************************************************************)
(* Model of @zahoor/fastify-storage: the plugin function that creates one  *)
(* unstorage instance, decorates the Fastify server and request with       *)
(* `storage`, `storagePrefix` and `storageSnapshot`, and registers the     *)
(* onClose hook that runs the optional close callback and then unwatches,  *)
(* unmounts and disposes the storage.                                      *)
(*                                                                         *)
(* The storage engine (unstorage) and the host framework (fastify) are     *)
(* external: their calls are modelled at the call boundary.  Every awaited *)
(* engine call may resolve or reject.                                      *)
(***************************************************************************)
EXTENDS Integers, Sequences, FiniteSets, TLC

\* ---------------------------------------------------------------------------
\* Bounds
\* ---------------------------------------------------------------------------

\* number of backends user code may mount besides the root mount
MaxMounts == 2

\* number of request objects observed
MaxRequests == 2

\* number of storage operations performed in one behaviour of SpecKV
MaxOps == 4

\* ---------------------------------------------------------------------------
\* Values
\* ---------------------------------------------------------------------------

NoStorage == 0

Null == "<null>"

\* `base` argument left out by the caller (restore(snapshot))
Omitted == "<omitted>"

BaseNames == <<"a:", "b:", "c:", "d:">>

RootBase == ""

MountBases == {BaseNames[i] : i \in 1..MaxMounts}

Requests == 1..MaxRequests

DriverChoices == {"valid", "invalid"}

CloseChoices == {"absent", "returns", "throws"}

VARIABLES
    opts,           \* registration options: [driver, close]
    pluginPc,       \* position in the plugin function body
    pluginErr,      \* error thrown out of the plugin function
    created,        \* number of storage instances created so far
    storage,        \* the `storage` constant captured by the closures
    serverDecor,    \* decorations of the server object: name -> value
    requestDecor,   \* decorations of the request prototype: name -> value
    onCloseHooks,   \* number of onClose hooks registered
    doneCalls,      \* number of times done() was called
    reqHandle,      \* per request: the handle read from req.storage
    mounts,         \* bases mounted in the engine
    hookPc,         \* position in the onClose hook
    ci,             \* index of the cleanup step inside the finally block
    awaiting,       \* TRUE while the hook awaits an engine call
    enumerated,     \* result of storage.getMounts('')
    enumDone,       \* TRUE once getMounts has been evaluated
    idx,            \* loop position in `for (const { base } of mounts)`
    closeCalls,     \* number of invocations of opts.close
    tryErr,         \* completion of the try block
    hookErr,        \* error the hook's promise rejected with
    log,            \* calls made by the hook and their completions
    store,          \* engine data: instance -> (key -> value)
    views,          \* prefixed views handed out: sequence of records
    snaps,          \* snapshots taken: sequence of records
    lastOp,         \* the last storage operation performed
    ops             \* number of storage operations performed

lifeVars == <<opts, pluginPc, pluginErr, created, storage, serverDecor,
              requestDecor, onCloseHooks, doneCalls>>

hookVars == <<hookPc, ci, awaiting, enumerated, enumDone, idx, closeCalls,
              tryErr, hookErr, log>>

kvVars == <<store, views, snaps, lastOp, ops>>

vars == <<opts, pluginPc, pluginErr, created, storage, serverDecor,
          requestDecor, onCloseHooks, doneCalls, reqHandle, mounts, hookPc,
          ci, awaiting, enumerated, enumDone, idx, closeCalls, tryErr,
          hookErr, log, store, views, snaps, lastOp, ops>>

\* ---------------------------------------------------------------------------
\* Helpers
\* ---------------------------------------------------------------------------

Range(s) == {s[i] : i \in DOMAIN s}

Perms(S) == {s \in [1..Cardinality(S) -> S] : Range(s) = S}

Event(t, step, arg, flag, ok) ==
    [t |-> t, step |-> step, arg |-> arg, flag |-> flag, ok |-> ok]

StartOf(step, arg, flag) == Event("start", step, arg, flag, TRUE)

EndOf(step, arg, flag, ok) == Event("end", step, arg, flag, ok)

\* ---------------------------------------------------------------------------
\* Plugin function
\* ---------------------------------------------------------------------------

\* variant: the onClose hook is registered before the storage is created
PluginBodyHookFirst == <<
    [op |-> "addHook",         name |-> "onClose"],
    [op |-> "createStorage",   name |-> ""],
    [op |-> "decorate",        name |-> "storage"],
    [op |-> "decorateRequest", name |-> "storage"],
    [op |-> "decorate",        name |-> "storagePrefix"],
    [op |-> "decorateRequest", name |-> "storagePrefix"],
    [op |-> "decorate",        name |-> "storageSnapshot"],
    [op |-> "decorateRequest", name |-> "storageSnapshot"],
    [op |-> "done",            name |-> ""] >>

\* variant: done() is called before the onClose hook is registered
PluginBodyDoneEarly == <<
    [op |-> "createStorage",   name |-> ""],
    [op |-> "decorate",        name |-> "storage"],
    [op |-> "decorateRequest", name |-> "storage"],
    [op |-> "decorate",        name |-> "storagePrefix"],
    [op |-> "decorateRequest", name |-> "storagePrefix"],
    [op |-> "decorate",        name |-> "storageSnapshot"],
    [op |-> "decorateRequest", name |-> "storageSnapshot"],
    [op |-> "done",            name |-> ""],
    [op |-> "addHook",         name |-> "onClose"] >>

\* the statements of the plugin function, in source order
PluginBody == <<
    [op |-> "createStorage",   name |-> ""],
    [op |-> "decorate",        name |-> "storage"],
    [op |-> "decorateRequest", name |-> "storage"],
    [op |-> "decorate",        name |-> "storagePrefix"],
    [op |-> "decorateRequest", name |-> "storagePrefix"],
    [op |-> "decorate",        name |-> "storageSnapshot"],
    [op |-> "decorateRequest", name |-> "storageSnapshot"],
    [op |-> "addHook",         name |-> "onClose"],
    [op |-> "done",            name |-> ""] >>

\* the value attached under each name; each closes over the one `storage`
DecorValue(name, st) ==
    CASE name = "storage"         -> [kind |-> "getter", storage |-> st]
      [] name = "storagePrefix"   -> [kind |-> "prefixFactory", storage |-> st]
      [] name = "storageSnapshot" -> [kind |-> "snapshotTool", storage |-> st]

Extend(f, name, val) ==
    [n \in (DOMAIN f) \cup {name} |-> IF n = name THEN val ELSE f[n]]

PreExisting == [kind |-> "other", storage |-> NoStorage]

Init ==
    /\ opts \in [driver : DriverChoices, close : CloseChoices]
    /\ pluginPc = 1
    /\ pluginErr = "none"
    /\ created = 0
    /\ storage = NoStorage
    /\ serverDecor = [n \in {"log"} |-> PreExisting]
    /\ requestDecor = [n \in {"id"} |-> PreExisting]
    /\ onCloseHooks = 0
    /\ doneCalls = 0
    /\ reqHandle = [r \in Requests |-> NoStorage]
    /\ mounts = {}
    /\ hookPc = "idle"
    /\ ci = 1
    /\ awaiting = FALSE
    /\ enumerated = <<>>
    /\ enumDone = FALSE
    /\ idx = 1
    /\ closeCalls = 0
    /\ tryErr = "none"
    /\ hookErr = "none"
    /\ log = <<>>
    /\ store = <<>>
    /\ views = <<>>
    /\ snaps = <<>>
    /\ lastOp = [kind |-> "none", h |-> NoStorage, key |-> "", val |-> Null,
                 n |-> 0, base |-> ""]
    /\ ops = 0

InBody == pluginPc \in 1..Len(PluginBody)

\* position of a plugin function that has returned normally
Returned == pluginPc = Len(PluginBody) + 1

\* position of a plugin function left by an exception
Threw == -1

\* the engine rejects an invalid driver or invalid options
CreateStorageThrows(o) == o.driver = "invalid"

\* const storage = createStorage(opts): an exception leaves the plugin function
CreateStorage ==
    /\ InBody
    /\ PluginBody[pluginPc].op = "createStorage"
    /\ IF CreateStorageThrows(opts)
       THEN /\ pluginPc' = Threw
            /\ pluginErr' = "configError"
            /\ UNCHANGED <<created, storage, mounts, store>>
       ELSE /\ pluginPc' = pluginPc + 1
            /\ created' = created + 1
            /\ storage' = created + 1
            /\ mounts' = {RootBase}
            /\ store' = Append(store, <<>>)
            /\ UNCHANGED pluginErr
    /\ UNCHANGED <<opts, serverDecor, requestDecor, onCloseHooks, doneCalls,
                   reqHandle, views, snaps, lastOp, ops>>
    /\ UNCHANGED hookVars

\* fastify.decorate(name, value)
Decorate ==
    /\ InBody
    /\ PluginBody[pluginPc].op = "decorate"
    /\ serverDecor' = Extend(serverDecor, PluginBody[pluginPc].name,
                             DecorValue(PluginBody[pluginPc].name, storage))
    /\ pluginPc' = pluginPc + 1
    /\ UNCHANGED <<opts, pluginErr, created, storage, requestDecor,
                   onCloseHooks, doneCalls, reqHandle, mounts>>
    /\ UNCHANGED hookVars
    /\ UNCHANGED kvVars

\* fastify.decorateRequest(name, value)
DecorateRequest ==
    /\ InBody
    /\ PluginBody[pluginPc].op = "decorateRequest"
    /\ requestDecor' = Extend(requestDecor, PluginBody[pluginPc].name,
                              DecorValue(PluginBody[pluginPc].name, storage))
    /\ pluginPc' = pluginPc + 1
    /\ UNCHANGED <<opts, pluginErr, created, storage, serverDecor,
                   onCloseHooks, doneCalls, reqHandle, mounts>>
    /\ UNCHANGED hookVars
    /\ UNCHANGED kvVars

\* fastify.addHook('onClose', async () => {...})
AddHook ==
    /\ InBody
    /\ PluginBody[pluginPc].op = "addHook"
    /\ onCloseHooks' = onCloseHooks + 1
    /\ pluginPc' = pluginPc + 1
    /\ UNCHANGED <<opts, pluginErr, created, storage, serverDecor,
                   requestDecor, doneCalls, reqHandle, mounts>>
    /\ UNCHANGED hookVars
    /\ UNCHANGED kvVars

\* done()
Done ==
    /\ InBody
    /\ PluginBody[pluginPc].op = "done"
    /\ doneCalls' = doneCalls + 1
    /\ pluginPc' = pluginPc + 1
    /\ UNCHANGED <<opts, pluginErr, created, storage, serverDecor,
                   requestDecor, onCloseHooks, reqHandle, mounts>>
    /\ UNCHANGED hookVars
    /\ UNCHANGED kvVars

\* ---------------------------------------------------------------------------
\* Environment: requests and user code
\* ---------------------------------------------------------------------------

\* variant: the getter builds a new instance on every read
CallGetterFresh(d, fresh) == fresh

\* evaluation of the decoration `{ getter: () => storage }`; `fresh` is the
\* id a new instance would get
CallGetter(d, fresh) == d.storage

ServerHandle ==
    IF "storage" \in DOMAIN serverDecor
    THEN CallGetter(serverDecor["storage"], created + 1)
    ELSE NoStorage

\* a request handler reads req.storage
RequestAccess(r) ==
    /\ Returned
    /\ hookPc = "idle"
    /\ "storage" \in DOMAIN requestDecor
    /\ reqHandle[r] = NoStorage
    /\ LET h == CallGetter(requestDecor["storage"], created + 1) IN
         /\ reqHandle' = [reqHandle EXCEPT ![r] = h]
         /\ created' = IF h > created THEN h ELSE created
         /\ store' = IF h > created THEN Append(store, <<>>) ELSE store
    /\ UNCHANGED <<opts, pluginPc, pluginErr, storage, serverDecor,
                   requestDecor, onCloseHooks, doneCalls, mounts, views,
                   snaps, lastOp, ops>>
    /\ UNCHANGED hookVars

\* user code calls storage.mount(base, driver) on the shared instance
Mount(b) ==
    /\ Returned
    /\ hookPc # "done"
    /\ b \notin mounts
    /\ mounts' = mounts \cup {b}
    /\ UNCHANGED <<reqHandle>>
    /\ UNCHANGED lifeVars
    /\ UNCHANGED hookVars
    /\ UNCHANGED kvVars

\* ---------------------------------------------------------------------------
\* onClose hook
\* ---------------------------------------------------------------------------

\* variant: the storage is disposed before its mounts are unmounted
CleanupOrderDisposeFirst == <<"unwatch", "dispose", "unmount">>

\* the awaited statements of the finally block, in source order
CleanupOrder == <<"unwatch", "unmount", "dispose">>

\* second argument of storage.unmount(base, true)
UnmountFlag == TRUE

\* variant: no finally, the cleanup is skipped when the try block throws
AfterTryNoFinally(err) == IF err = "none" THEN "finally" ELSE "done"

\* where control goes once the try block has completed with `err`
AfterTry(err) == "finally"

\* variant: the first error wins, a later cleanup error is dropped
FinallyCompletionKeepFirst(tryE, finE) == IF tryE # "none" THEN tryE ELSE finE

\* completion of try/finally: a throw in the finally block replaces the
\* completion of the try block, otherwise the try block's completion stands
FinallyCompletion(tryE, finE) == IF finE # "none" THEN finE ELSE tryE

InFinally(step) ==
    /\ hookPc = "finally"
    /\ ci \in 1..Len(CleanupOrder)
    /\ CleanupOrder[ci] = step

\* the current cleanup step has resolved: go to the next statement, or leave
\* the finally block after the last one
Advance ==
    IF ci < Len(CleanupOrder)
    THEN /\ ci' = ci + 1
         /\ UNCHANGED <<hookPc, hookErr>>
    ELSE /\ ci' = ci
         /\ hookPc' = "done"
         /\ hookErr' = FinallyCompletion(tryErr, "none")

\* the current cleanup step has rejected: the finally block is left at once
Abort(e) ==
    /\ hookPc' = "done"
    /\ hookErr' = FinallyCompletion(tryErr, e)
    /\ ci' = ci

\* fastify.close() runs the registered onClose hook
StartClose ==
    /\ Returned
    /\ onCloseHooks > 0
    /\ hookPc = "idle"
    /\ hookPc' = "try"
    /\ UNCHANGED <<ci, awaiting, enumerated, enumDone, idx, closeCalls,
                   tryErr, hookErr, log>>
    /\ UNCHANGED <<reqHandle, mounts>>
    /\ UNCHANGED lifeVars
    /\ UNCHANGED kvVars

\* variant: the callback is never called
CloseNeverCalled(o) == FALSE

\* opts.close?.  -- the callback is called only when it is configured
CloseConfigured(o) == o.close # "absent"

\* await opts.close?.()  -- the call
CallClose ==
    /\ hookPc = "try"
    /\ IF ~CloseConfigured(opts)
       THEN /\ hookPc' = AfterTry("none")
            /\ UNCHANGED <<closeCalls, log>>
       ELSE /\ hookPc' = "awaitClose"
            /\ closeCalls' = closeCalls + 1
            /\ log' = Append(log, StartOf("close", "", FALSE))
    /\ UNCHANGED <<ci, awaiting, enumerated, enumDone, idx, tryErr, hookErr>>
    /\ UNCHANGED <<reqHandle, mounts>>
    /\ UNCHANGED lifeVars
    /\ UNCHANGED kvVars

\* await opts.close?.()  -- the callback returns/resolves or throws/rejects
CloseSettles ==
    /\ hookPc = "awaitClose"
    /\ LET e == IF opts.close = "throws" THEN "closeErr" ELSE "none" IN
         /\ tryErr' = e
         /\ log' = Append(log, EndOf("close", "", FALSE, e = "none"))
         /\ hookPc' = AfterTry(e)
         /\ hookErr' = IF AfterTry(e) = "done" THEN e ELSE hookErr
    /\ UNCHANGED <<ci, awaiting, enumerated, enumDone, idx, closeCalls>>
    /\ UNCHANGED <<reqHandle, mounts>>
    /\ UNCHANGED lifeVars
    /\ UNCHANGED kvVars

\* await storage.unwatch()  -- the call
UnwatchStart ==
    /\ InFinally("unwatch")
    /\ ~awaiting
    /\ awaiting' = TRUE
    /\ log' = Append(log, StartOf("unwatch", "", FALSE))
    /\ UNCHANGED <<hookPc, ci, enumerated, enumDone, idx, closeCalls, tryErr,
                   hookErr>>
    /\ UNCHANGED <<reqHandle, mounts>>
    /\ UNCHANGED lifeVars
    /\ UNCHANGED kvVars

\* await storage.unwatch()  -- the engine resolves or rejects
UnwatchSettles(ok) ==
    /\ InFinally("unwatch")
    /\ awaiting
    /\ awaiting' = FALSE
    /\ log' = Append(log, EndOf("unwatch", "", FALSE, ok))
    /\ IF ok THEN Advance ELSE Abort("unwatchErr")
    /\ UNCHANGED <<enumerated, enumDone, idx, closeCalls, tryErr>>
    /\ UNCHANGED <<reqHandle, mounts>>
    /\ UNCHANGED lifeVars
    /\ UNCHANGED kvVars

\* const mounts = storage.getMounts('')
GetMounts ==
    /\ InFinally("unmount")
    /\ ~awaiting
    /\ ~enumDone
    /\ \E s \in Perms(mounts) : enumerated' = s
    /\ enumDone' = TRUE
    /\ idx' = 1
    /\ UNCHANGED <<hookPc, ci, awaiting, closeCalls, tryErr, hookErr, log>>
    /\ UNCHANGED <<reqHandle, mounts>>
    /\ UNCHANGED lifeVars
    /\ UNCHANGED kvVars

\* await storage.unmount(base, true)  -- the call, for the next mount
UnmountStart ==
    /\ InFinally("unmount")
    /\ ~awaiting
    /\ enumDone
    /\ idx <= Len(enumerated)
    /\ awaiting' = TRUE
    /\ log' = Append(log, StartOf("unmount", enumerated[idx], UnmountFlag))
    /\ UNCHANGED <<hookPc, ci, enumerated, enumDone, idx, closeCalls, tryErr,
                   hookErr>>
    /\ UNCHANGED <<reqHandle, mounts>>
    /\ UNCHANGED lifeVars
    /\ UNCHANGED kvVars

\* await storage.unmount(base, true)  -- the engine resolves or rejects; the
\* loop goes on to the next mount, and is left after the last one
UnmountSettles(ok) ==
    /\ InFinally("unmount")
    /\ awaiting
    /\ awaiting' = FALSE
    /\ log' = Append(log, EndOf("unmount", enumerated[idx], UnmountFlag, ok))
    /\ IF ok
       THEN /\ idx' = idx + 1
            /\ mounts' = IF enumerated[idx] = RootBase
                         THEN mounts
                         ELSE mounts \ {enumerated[idx]}
            /\ IF idx < Len(enumerated)
               THEN UNCHANGED <<hookPc, ci, hookErr>>
               ELSE Advance
       ELSE /\ Abort("unmountErr")
            /\ UNCHANGED <<idx, mounts>>
    /\ UNCHANGED <<enumerated, enumDone, closeCalls, tryErr>>
    /\ UNCHANGED <<reqHandle>>
    /\ UNCHANGED lifeVars
    /\ UNCHANGED kvVars

\* await storage.dispose()  -- the call
DisposeStart ==
    /\ InFinally("dispose")
    /\ ~awaiting
    /\ awaiting' = TRUE
    /\ log' = Append(log, StartOf("dispose", "", FALSE))
    /\ UNCHANGED <<hookPc, ci, enumerated, enumDone, idx, closeCalls, tryErr,
                   hookErr>>
    /\ UNCHANGED <<reqHandle, mounts>>
    /\ UNCHANGED lifeVars
    /\ UNCHANGED kvVars

\* await storage.dispose()  -- the engine resolves or rejects
DisposeSettles(ok) ==
    /\ InFinally("dispose")
    /\ awaiting
    /\ awaiting' = FALSE
    /\ log' = Append(log, EndOf("dispose", "", FALSE, ok))
    /\ IF ok THEN Advance ELSE Abort("disposeErr")
    /\ UNCHANGED <<enumerated, enumDone, idx, closeCalls, tryErr>>
    /\ UNCHANGED <<reqHandle, mounts>>
    /\ UNCHANGED lifeVars
    /\ UNCHANGED kvVars

\* ---------------------------------------------------------------------------
\* Storage operations through the decorations
\* ---------------------------------------------------------------------------

Prefixes == {"", "a:"}

KeyNames == {"x"}

Values == {"v1", "v2"}

FullKeys == {p \o k : p \in Prefixes, k \in KeyNames}

\* who uses a decoration: the server object (0) or a request object
Server == 0

Callers == {Server} \cup Requests

\* the storage handle a caller holds
HandleOf(c) == IF c = Server THEN ServerHandle ELSE reqHandle[c]

CanOperate(c) ==
    /\ Returned
    /\ hookPc = "idle"
    /\ ops < MaxOps
    /\ HandleOf(c) \in DOMAIN store

StartsWith(k, b) == Len(k) >= Len(b) /\ SubSeq(k, 1, Len(b)) = b

Strip(k, b) == SubSeq(k, Len(b) + 1, Len(k))

\* engine: getItem / setItem / removeItem on one instance's data
GetItem(s, k) == IF k \in DOMAIN s THEN s[k] ELSE Null

SetItemIn(s, k, v) == Extend(s, k, v)

RemoveItemIn(s, k) == [n \in (DOMAIN s) \ {k} |-> s[n]]

\* engine: prefixStorage(storage, base), a view that prepends base to keys
PrefixStorage(st, base) == [storage |-> st, base |-> base]

ViewKey(view, key) == view.base \o key

\* engine: snapshot(storage, base), the pairs under base, keyed relative to it
Snapshot(s, base) ==
    [rel \in {Strip(k, base) : k \in {f \in DOMAIN s : StartsWith(f, base)}}
        |-> s[base \o rel]]

\* engine: restoreSnapshot(storage, snapshot, base = ''), writes every pair
\* of the snapshot back at base + key
RestoreSnapshot(s, snap, base) ==
    LET b == IF base = Omitted THEN RootBase ELSE base
        written == {b \o rel : rel \in DOMAIN snap}
    IN  [k \in (DOMAIN s) \cup written |->
            IF k \in written THEN snap[Strip(k, b)] ELSE s[k]]

\* variant: the prefix is not passed on
CreatePrefixedStorageNoPrefix(st, prefix) == PrefixStorage(st, RootBase)

\* (prefix) => prefixStorage(storage, prefix)
CreatePrefixedStorage(st, prefix) == PrefixStorage(st, prefix)

\* fn = (base) => snapshot(storage, base)
SnapshotFn(s, base) == Snapshot(s, base)

\* variant: the target base is not passed on
RestoreFnNoBase(s, snap, base) == RestoreSnapshot(s, snap, Omitted)

\* fn.restore = (snapshot, base?) => restoreSnapshot(storage, snapshot, base)
RestoreFn(s, snap, base) == RestoreSnapshot(s, snap, base)

Op(kind, h, key, val, n, base) ==
    [kind |-> kind, h |-> h, key |-> key, val |-> val, n |-> n, base |-> base]

\* remember, for every snapshot of instance h, that key k was written since
Touch(sq, h, k) ==
    [j \in DOMAIN sq |->
        IF sq[j].st = h THEN [sq[j] EXCEPT !.dirty = @ \cup {k}] ELSE sq[j]]

\* caller.storage.setItem(k, v)
SetItem(c, k, v) ==
    /\ CanOperate(c)
    /\ LET h == HandleOf(c) IN
         /\ store' = [store EXCEPT ![h] = SetItemIn(@, k, v)]
         /\ snaps' = Touch(snaps, h, k)
         /\ lastOp' = Op("set", h, k, v, c, "")
    /\ ops' = ops + 1
    /\ UNCHANGED <<views, reqHandle, mounts>>
    /\ UNCHANGED lifeVars
    /\ UNCHANGED hookVars

\* caller.storage.removeItem(k)
RemoveItem(c, k) ==
    /\ CanOperate(c)
    /\ LET h == HandleOf(c) IN
         /\ k \in DOMAIN store[h]
         /\ store' = [store EXCEPT ![h] = RemoveItemIn(@, k)]
         /\ snaps' = Touch(snaps, h, k)
         /\ lastOp' = Op("remove", h, k, Null, 0, "")
    /\ ops' = ops + 1
    /\ UNCHANGED <<views, reqHandle, mounts>>
    /\ UNCHANGED lifeVars
    /\ UNCHANGED hookVars

DecorOf(c) == IF c = Server THEN serverDecor ELSE requestDecor

\* caller.storagePrefix(p)
MakeView(c, p) ==
    /\ CanOperate(c)
    /\ "storagePrefix" \in DOMAIN DecorOf(c)
    /\ views' = Append(views,
                  [view |-> CreatePrefixedStorage(
                                DecorOf(c)["storagePrefix"].storage, p),
                   asked |-> p])
    /\ lastOp' = Op("view", HandleOf(c), "", Null, Len(views) + 1, p)
    /\ ops' = ops + 1
    /\ UNCHANGED <<store, snaps, reqHandle, mounts>>
    /\ UNCHANGED lifeVars
    /\ UNCHANGED hookVars

\* view.setItem(k, v) on a view obtained from storagePrefix
ViewSetItem(i, k, v) ==
    /\ CanOperate(Server)
    /\ i \in DOMAIN views
    /\ LET h == views[i].view.storage
           fk == ViewKey(views[i].view, k)
       IN /\ h \in DOMAIN store
          /\ store' = [store EXCEPT ![h] = SetItemIn(@, fk, v)]
          /\ snaps' = Touch(snaps, h, fk)
          /\ lastOp' = Op("viewSet", h, k, v, i, views[i].asked)
    /\ ops' = ops + 1
    /\ UNCHANGED <<views, reqHandle, mounts>>
    /\ UNCHANGED lifeVars
    /\ UNCHANGED hookVars

\* caller.storageSnapshot(b)
TakeSnapshot(c, b) ==
    /\ CanOperate(c)
    /\ "storageSnapshot" \in DOMAIN DecorOf(c)
    /\ LET h == DecorOf(c)["storageSnapshot"].storage IN
         /\ h \in DOMAIN store
         /\ snaps' = Append(snaps,
                       [data |-> SnapshotFn(store[h], b), base |-> b,
                        st |-> h, orig |-> store[h], dirty |-> {}])
         /\ lastOp' = Op("snapshot", h, "", Null, Len(snaps) + 1, b)
    /\ ops' = ops + 1
    /\ UNCHANGED <<store, views, reqHandle, mounts>>
    /\ UNCHANGED lifeVars
    /\ UNCHANGED hookVars

\* caller.storageSnapshot.restore(snapshot, b) and .restore(snapshot)
Restore(c, i, b) ==
    /\ CanOperate(c)
    /\ "storageSnapshot" \in DOMAIN DecorOf(c)
    /\ i \in DOMAIN snaps
    /\ b \in {snaps[i].base, Omitted}
    /\ LET h == DecorOf(c)["storageSnapshot"].storage IN
         /\ h \in DOMAIN store
         /\ store' = [store EXCEPT ![h] = RestoreFn(@, snaps[i].data, b)]
         /\ lastOp' = Op("restore", h, "", Null, i, b)
    /\ ops' = ops + 1
    /\ UNCHANGED <<views, snaps, reqHandle, mounts>>
    /\ UNCHANGED lifeVars
    /\ UNCHANGED hookVars

Next ==
    \/ CreateStorage
    \/ Decorate
    \/ DecorateRequest
    \/ AddHook
    \/ Done
    \/ \E r \in Requests : RequestAccess(r)
    \/ \E b \in MountBases : Mount(b)
    \/ StartClose
    \/ CallClose
    \/ CloseSettles
    \/ UnwatchStart
    \/ \E ok \in BOOLEAN : UnwatchSettles(ok)
    \/ GetMounts
    \/ UnmountStart
    \/ \E ok \in BOOLEAN : UnmountSettles(ok)
    \/ DisposeStart
    \/ \E ok \in BOOLEAN : DisposeSettles(ok)

Spec == Init /\ [][Next]_vars

NextKV ==
    \/ CreateStorage
    \/ Decorate
    \/ DecorateRequest
    \/ AddHook
    \/ Done
    \/ \E r \in Requests : RequestAccess(r)
    \/ \E c \in Callers, k \in FullKeys, v \in Values : SetItem(c, k, v)
    \/ \E c \in Callers, k \in FullKeys : RemoveItem(c, k)
    \/ \E c \in Callers, p \in Prefixes : MakeView(c, p)
    \/ \E i \in 1..MaxOps, k \in KeyNames, v \in Values : ViewSetItem(i, k, v)
    \/ \E c \in Callers, b \in Prefixes : TakeSnapshot(c, b)
    \/ \E c \in Callers, i \in 1..MaxOps, b \in Prefixes \cup {Omitted} :
          Restore(c, i, b)

SpecKV == Init /\ [][NextKV]_vars

\* ---------------------------------------------------------------------------
\* Properties of the shutdown hook
\* ---------------------------------------------------------------------------

Idx(step, t) == {i \in DOMAIN log : log[i].step = step /\ log[i].t = t}

Called(step) == Idx(step, "start") # {}

UnmountCalledFor(b) ==
    \E i \in Idx("unmount", "start") : log[i].arg = b /\ log[i].flag = TRUE

CleanupSteps == {"unwatch", "unmount", "dispose"}

CleanupFailed ==
    \E i \in DOMAIN log :
        log[i].t = "end" /\ log[i].step \in CleanupSteps /\ ~log[i].ok

AllCleanupExecuted ==
    /\ Called("unwatch")
    /\ enumDone
    /\ \A b \in Range(enumerated) : UnmountCalledFor(b)
    /\ Called("dispose")

C2_CallbackFailureReported ==
    (hookPc = "done" /\ tryErr = "closeErr") => hookErr = "closeErr"

\* C3: the close callback has settled before the first cleanup call; the
\* calls are unwatch, then unmount(base, true) for each enumerated mount in
\* turn, then dispose; every call starts only after the previous one has
\* resolved, and dispose only after every enumerated mount was unmounted.
C3_CleanupOrder ==
    /\ \A i \in DOMAIN log :
          /\ (log[i].t = "start" /\ i > 1) =>
                /\ log[i - 1].t = "end"
                /\ log[i - 1].step = "close" \/ log[i - 1].ok
          /\ log[i].t = "end" =>
                /\ i > 1
                /\ log[i - 1] = StartOf(log[i].step, log[i].arg, log[i].flag)
          /\ (log[i].step \in CleanupSteps /\ opts.close # "absent") =>
                \E k \in 1..(i - 1) : log[k].t = "end" /\ log[k].step = "close"
          /\ log[i].step = "close" => i <= 2
    /\ Cardinality(Idx("unwatch", "start")) <= 1
    /\ Cardinality(Idx("dispose", "start")) <= 1
    /\ \A i \in Idx("unmount", "start") :
          /\ log[i].flag = TRUE
          /\ \E k \in 1..(i - 1) : log[k] = EndOf("unwatch", "", FALSE, TRUE)
          /\ LET n == Cardinality({j \in Idx("unmount", "start") : j <= i})
             IN  enumDone /\ n <= Len(enumerated) /\ log[i].arg = enumerated[n]
    /\ \A i \in Idx("dispose", "start") :
          /\ \E k \in 1..(i - 1) : log[k] = EndOf("unwatch", "", FALSE, TRUE)
          /\ enumDone
          /\ \A j \in DOMAIN enumerated :
                \E k \in 1..(i - 1) :
                    log[k] = EndOf("unmount", enumerated[j], TRUE, TRUE)

C3_Witness ==
    /\ hookPc = "done"
    /\ closeCalls = 1
    /\ Len(enumerated) >= 2
    /\ \E i \in DOMAIN log : log[i] = EndOf("dispose", "", FALSE, TRUE)

\* C4: a configured close callback is called exactly once per shutdown and
\* has settled before the hook goes on and returns; without a callback the
\* hook goes straight to the cleanup and raises no error of its own.
C4_CloseCalledAndAwaited ==
    /\ closeCalls <= 1
    /\ (opts.close # "absent" /\ hookPc \in {"finally", "done"}) =>
          /\ closeCalls = 1
          /\ \E i \in DOMAIN log : log[i].t = "end" /\ log[i].step = "close"
    /\ opts.close = "absent" =>
          /\ closeCalls = 0
          /\ tryErr = "none"
          /\ log # <<>> => log[1] = StartOf("unwatch", "", FALSE)
          /\ (hookPc = "done" /\ ~CleanupFailed) => hookErr = "none"

C4_Witness ==
    /\ hookPc = "done"
    /\ opts.close = "returns"
    /\ closeCalls = 1
    /\ hookErr = "none"

\* C10: a failing unwatch ends the hook with that failure, no mount is
\* unmounted and dispose is not called; a failing unmount ends the hook with
\* that failure, the remaining mounts are not unmounted and dispose is not
\* called.
C10_CleanupStepsNotIsolated ==
    \A i \in DOMAIN log :
        (log[i].t = "end" /\ log[i].step \in {"unwatch", "unmount"}
                          /\ ~log[i].ok) =>
            /\ i = Len(log)
            /\ hookPc = "done"
            /\ ~Called("dispose")
            /\ log[i].step = "unwatch" =>
                  /\ hookErr = "unwatchErr"
                  /\ ~Called("unmount")
            /\ log[i].step = "unmount" =>
                  /\ hookErr = "unmountErr"
                  /\ log[i].arg = enumerated[idx]
                  /\ Cardinality(Idx("unmount", "start")) = idx
                  /\ \A j \in (idx + 1)..Len(enumerated) :
                        ~UnmountCalledFor(enumerated[j])

C10_Witness ==
    /\ hookPc = "done"
    /\ hookErr = "unmountErr"
    /\ tryErr = "closeErr"
    /\ idx < Len(enumerated)
    /\ ~Called("dispose")

\* ---------------------------------------------------------------------------
\* Properties of the registration
\* ---------------------------------------------------------------------------

Capabilities == {"storage", "storagePrefix", "storageSnapshot"}

\* C8: when createStorage throws, the plugin function is left with that
\* error, no capability is added to the server or the request, no hook is
\* registered and done() is not called.
C8_FailedCreationAddsNothing ==
    opts.driver = "invalid" =>
        /\ ~Returned
        /\ pluginPc = Threw => pluginErr = "configError"
        /\ DOMAIN serverDecor = {"log"}
        /\ DOMAIN requestDecor = {"id"}
        /\ onCloseHooks = 0
        /\ doneCalls = 0
        /\ created = 0

C8_Witness ==
    /\ opts.driver = "invalid"
    /\ pluginPc = Threw
    /\ pluginErr = "configError"

\* C9: a plugin function that returned has added exactly the three
\* capabilities to the server and to the request, registered exactly one
\* onClose hook and called done() once, after all of these were in place, and
\* left the other decorations as they were.
C9_SuccessfulRegistration ==
    /\ doneCalls <= 1
    /\ doneCalls > 0 =>
          /\ Capabilities \subseteq DOMAIN serverDecor
          /\ Capabilities \subseteq DOMAIN requestDecor
          /\ onCloseHooks = 1
    /\ Returned =>
          /\ DOMAIN serverDecor = {"log"} \cup Capabilities
          /\ DOMAIN requestDecor = {"id"} \cup Capabilities
          /\ serverDecor["log"] = PreExisting
          /\ requestDecor["id"] = PreExisting
          /\ \A n \in Capabilities :
                /\ serverDecor[n] = DecorValue(n, storage)
                /\ requestDecor[n] = DecorValue(n, storage)
          /\ onCloseHooks = 1
          /\ doneCalls = 1
          /\ pluginErr = "none"

C9_Witness ==
    /\ Returned
    /\ doneCalls = 1
    /\ onCloseHooks = 1

\* ---------------------------------------------------------------------------
\* Properties of the storage capabilities
\* ---------------------------------------------------------------------------

\* C5: one storage instance is created per registration; the server's handle
\* and every request's handle are that instance, and a value written through
\* any of them is read back through every other one.
C5_OneSharedInstance ==
    /\ created <= 1
    /\ Returned => (created = 1 /\ storage = 1)
    /\ "storage" \in DOMAIN serverDecor => ServerHandle = storage
    /\ \A r \in Requests :
          reqHandle[r] # NoStorage => reqHandle[r] = ServerHandle
    /\ lastOp.kind = "set" =>
          \A c \in Callers :
              HandleOf(c) # NoStorage =>
                  GetItem(store[HandleOf(c)], lastOp.key) = lastOp.val

C5_Witness ==
    /\ lastOp.kind = "set"
    /\ lastOp.n \in Requests
    /\ \A r \in Requests : reqHandle[r] # NoStorage

\* C6: a value written with setItem(K, v) through a view obtained from
\* storagePrefix(P) is read back from the base handle at P \o K, and through
\* every other view obtained for the same P.
C6_PrefixedWriteAtConcatenation ==
    lastOp.kind = "viewSet" =>
        /\ GetItem(store[ServerHandle], lastOp.base \o lastOp.key) = lastOp.val
        /\ \A j \in DOMAIN views :
              views[j].asked = lastOp.base =>
                  GetItem(store[views[j].view.storage],
                          ViewKey(views[j].view, lastOp.key)) = lastOp.val

C6_Witness ==
    /\ lastOp.kind = "viewSet"
    /\ lastOp.base = "a:"
    /\ \E j \in DOMAIN views : j # lastOp.n /\ views[j].asked = "a:"

\* the restore targets the base the snapshot was taken of
RestoresToOwnBase ==
    /\ lastOp.kind = "restore"
    /\ \/ lastOp.base = snaps[lastOp.n].base
       \/ lastOp.base = Omitted /\ snaps[lastOp.n].base = RootBase

====
